---- MODULE Spec2Model ----
(***************************************************************************)
(* Model of the authtara SDK client (src/src/index.ts), its error taxonomy *)
(* (src/src/errors.ts) and its storage manager (src/src/storage.ts).       *)
(*                                                                         *)
(* JavaScript values are represented as follows.                           *)
(*   - an optional value (T | undefined) is a sequence of length <= 1:     *)
(*     <<>> is undefined, <<v>> is v;                                      *)
(*   - a message string is a sequence of tokens, so that a template such   *)
(*     as `Request failed with status ${status}` is built by               *)
(*     concatenation; the empty string is <<>>;                            *)
(*   - a clientId is a sequence of characters, so that startsWith is       *)
(*     computed;                                                           *)
(*   - a User value is one of Users, or Null, or Undefined.                *)
(***************************************************************************)
EXTENDS Integers, Sequences, FiniteSets, Bags, TLC

\* ------------------------------------------------------------------ bounds

\* Number of client operations started in one behaviour (the constructor's
\* eager restore counts as one).
MaxCalls == 2

\* Number of operations in flight at once.
MaxInFlight == 1

\* Number of on/off calls in one behaviour.
MaxRegOps == 2

\* Number of operations on a StorageManager in one behaviour.
MaxStorageOps == 3

\* Number of client operations started in one behaviour with a provider: the
\* constructor's restore, the provider's initial check, wrapped actions.
MaxProviderCalls == 3

\* Number of on/off calls by other code in one behaviour with a provider.
MaxProviderRegOps == 1

\* Number of client operations started in one behaviour with overlapping
\* calls (the constructor's restore counts as one).
MaxRaceCalls == 3

\* Number of operations in flight at once when calls overlap.
MaxOverlap == 2

\* Number of client operations started in one behaviour with a provider and
\* direct calls on the client: the provider's initial check and one more.
MaxMixedCalls == 2

\* ------------------------------------------------------------------ values

Null == "null"
Undefined == "undefined"
Users == {"u1", "u2"}
UserValues == Users \cup {Null, Undefined}

Handlers == {"h1", "h2"}
Events == {"signIn", "signOut", "userChanged", "error"}
Ops == {"signUp", "signIn", "signOut", "getUser"}

\* HTTP statuses a response can carry; response.ok is 200..299.
Statuses == {200, 401, 404, 422, 500}

ResponseOk(status) == status >= 200 /\ status <= 299

\* ------------------------------------------------------------------ strings

DigitChar == <<"0", "1", "2", "3", "4", "5", "6", "7", "8", "9">>

RECURSIVE Digits(_)
\* Number -> decimal string, as template interpolation formats it.
Digits(n) ==
    IF n < 10 THEN <<DigitChar[n + 1]>>
    ELSE Digits(n \div 10) \o <<DigitChar[(n % 10) + 1]>>

\* String.prototype.startsWith on character sequences.
StartsWith(s, prefix) ==
    /\ Len(s) >= Len(prefix)
    /\ SubSeq(s, 1, Len(prefix)) = prefix

AppPrefix == <<"a", "p", "p", "_">>

\* ------------------------------------------------------------------ errors

NoError ==
    [kind |-> "none", message |-> <<>>, code |-> <<>>, status |-> <<>>,
     errors |-> <<>>]

\* new AuthError(message, code?, statusCode?, errors?)
AuthError(message, code, statusCode, errors) ==
    [kind |-> "AuthError", message |-> message, code |-> code,
     status |-> statusCode, errors |-> errors]

\* new AuthenticationError(message, statusCode)
AuthenticationError(message, statusCode) ==
    [AuthError(message, <<"AUTHENTICATION_ERROR">>, <<statusCode>>, <<>>)
        EXCEPT !.kind = "AuthenticationError"]

\* new ValidationError(message, errors)
ValidationError(message, errors) ==
    [AuthError(message, <<"VALIDATION_ERROR">>, <<422>>, errors)
        EXCEPT !.kind = "ValidationError"]

\* new NetworkError(message): statusCode defaults to 0
NetworkError(message) ==
    [AuthError(message, <<"NETWORK_ERROR">>, <<0>>, <<>>)
        EXCEPT !.kind = "NetworkError"]

\* new NotFoundError(message, statusCode)
NotFoundError(message, statusCode) ==
    [AuthError(message, <<"NOT_FOUND">>, <<statusCode>>, <<>>)
        EXCEPT !.kind = "NotFoundError"]

\* A thrown value outside the taxonomy: an Error (TypeError, SyntaxError,
\* DOMException) or a value that is no Error at all.
RawError(message) ==
    [kind |-> "Error", message |-> message, code |-> <<>>, status |-> <<>>,
     errors |-> <<>>]

NonErrorThrown ==
    [kind |-> "NonError", message |-> <<>>, code |-> <<>>, status |-> <<>>,
     errors |-> <<>>]

TaxonomyKinds ==
    {"AuthError", "AuthenticationError", "ValidationError", "NetworkError",
     "NotFoundError"}

\* error instanceof AuthError
IsAuthError(e) == e.kind \in TaxonomyKinds

\* error instanceof AuthenticationError
IsAuthenticationError(e) == e.kind = "AuthenticationError"

\* error instanceof Error ? error.message : "Network request failed"
MessageOf(e) ==
    IF e.kind = "NonError" THEN <<"Network request failed">> ELSE e.message

\* ------------------------------------------------------------------ bodies

\* The field-error list of the documented 422 example.
FieldErrors == <<[field |-> "email", message |-> <<"invalid">>, code |-> "INVALID"]>>

NoNested == <<>>

Nested(message, code, errors) ==
    <<[message |-> message, code |-> code, errors |-> errors]>>

\* A response body as response.json() sees it: parse = FALSE when the text is
\* no JSON; object = FALSE when it parses to a value that is no object (a
\* string, a number, null); otherwise the members the decoder reads.
ErrBody(parse, object, message, code, errors, error) ==
    [parse |-> parse, object |-> object, message |-> message, code |-> code,
     errors |-> errors, error |-> error]

ErrorBodies ==
    { ErrBody(FALSE, FALSE, <<>>, <<>>, <<>>, NoNested),
      ErrBody(TRUE, FALSE, <<>>, <<>>, <<>>, NoNested),
      ErrBody(TRUE, TRUE, <<>>, <<>>, <<>>, NoNested),
      ErrBody(TRUE, TRUE, << <<"bad input">> >>, <<>>, <<FieldErrors>>, NoNested),
      ErrBody(TRUE, TRUE, << <<"denied">> >>, <<"E_TOP">>, <<>>,
              Nested(<< <<"inner">> >>, <<"E_IN">>, <<FieldErrors>>)),
      ErrBody(TRUE, TRUE, << <<>> >>, <<"">>, <<>>,
              Nested(<< <<"inner">> >>, <<"E_IN">>, <<FieldErrors>>)) }

\* JavaScript truthiness of an optional string: undefined and "" are falsy.
TruthyMsg(opt) == opt # <<>> /\ opt[1] # <<>>

TruthyCode(opt) == opt # <<>> /\ opt[1] # ""

\* errorData.error?.member
NestedMessage(body) == IF body.error = <<>> THEN <<>> ELSE body.error[1].message

NestedCode(body) == IF body.error = <<>> THEN <<>> ELSE body.error[1].code

NestedErrors(body) == IF body.error = <<>> THEN <<>> ELSE body.error[1].errors

\* errorData.message || errorData.error?.message || "An error occurred"
ExtractMessage(body) ==
    IF TruthyMsg(body.message) THEN body.message[1]
    ELSE IF TruthyMsg(NestedMessage(body)) THEN NestedMessage(body)[1]
    ELSE <<"An error occurred">>

\* Mutant of ExtractCode: the nested error object is not consulted.
ExtractCodeTopOnly(body) ==
    IF TruthyCode(body.code) THEN body.code ELSE <<"UNKNOWN_ERROR">>

\* errorData.code || errorData.error?.code || "UNKNOWN_ERROR"
ExtractCode(body) ==
    IF TruthyCode(body.code) THEN body.code
    ELSE IF TruthyCode(NestedCode(body)) THEN NestedCode(body)
    ELSE <<"UNKNOWN_ERROR">>

\* errorData.errors || errorData.error?.errors
ExtractErrors(body) ==
    IF body.errors # <<>> THEN body.errors ELSE NestedErrors(body)

\* The switch on response.status.
ErrorForStatus(status, message, code, errors) ==
    CASE status = 401 -> AuthenticationError(message, status)
      [] status = 404 -> NotFoundError(message, status)
      [] status = 422 -> ValidationError(message, errors)
      [] OTHER -> AuthError(message, code, <<status>>, errors)

\* Mutant of HandleErrorResponse: the status is mapped to a variant even when
\* the body did not parse.
HandleErrorResponseStatusFirst(status, body) ==
    IF ~body.parse
    THEN ErrorForStatus(status,
                        <<"Request failed with status ">> \o Digits(status),
                        <<"UNKNOWN_ERROR">>, <<>>)
    ELSE IF ~body.object
    THEN AuthError(<<"Invalid error response format">>, <<"UNKNOWN_ERROR">>,
                   <<status>>, <<>>)
    ELSE ErrorForStatus(status, ExtractMessage(body), ExtractCode(body),
                        ExtractErrors(body))

\* handleErrorResponse: the error it throws for a response and its body.
HandleErrorResponse(status, body) ==
    IF ~body.parse
    THEN AuthError(<<"Request failed with status ">> \o Digits(status),
                   <<"UNKNOWN_ERROR">>, <<status>>, <<>>)
    ELSE IF ~body.object
    THEN AuthError(<<"Invalid error response format">>, <<"UNKNOWN_ERROR">>,
                   <<status>>, <<>>)
    ELSE ErrorForStatus(status, ExtractMessage(body), ExtractCode(body),
                        ExtractErrors(body))

\* A success body: data is result.data, user is result.data.user.
OkBody(parse, data) == [parse |-> parse, data |-> data]

OkBodies ==
    { OkBody(FALSE, <<>>), OkBody(TRUE, <<>>),
      OkBody(TRUE, <<[user |-> <<>>]>>),
      OkBody(TRUE, <<[user |-> <<Null>>]>>) }
    \cup { OkBody(TRUE, <<[user |-> <<u>>]>>) : u \in Users }

\* What `await response.json()` followed by result.data.user yields: the
\* user read, or the error thrown on the way (SyntaxError for a text that is
\* no JSON, TypeError for reading a member of undefined).
DecodeUser(body) ==
    IF ~body.parse
    THEN [threw |-> TRUE, error |-> RawError(<<"Unexpected token">>),
          user |-> Undefined]
    ELSE IF body.data = <<>>
    THEN [threw |-> TRUE,
          error |-> RawError(<<"Cannot read properties of undefined">>),
          user |-> Undefined]
    ELSE [threw |-> FALSE, error |-> NoError,
          user |-> IF body.data[1].user = <<>> THEN Undefined
                   ELSE body.data[1].user[1]]

\* ------------------------------------------------------------------ events

\* eventListeners: Map<string, Set<handler>>. The map is a function whose
\* domain holds the events that have an entry; a Set is a sequence without
\* repetition, in insertion order.
InSeq(x, s) == \E i \in 1..Len(s) : s[i] = x

RemoveFrom(s, x) == SelectSeq(s, LAMBDA y : y # x)

\* Mutant of SetAdd: a list push, which keeps a repeated handler.
SetAddAlways(s, x) == Append(s, x)

\* Set.prototype.add
SetAdd(s, x) == IF InSeq(x, s) THEN s ELSE Append(s, x)

\* on(event, handler)
RegistryOn(listeners, event, handler) ==
    LET withEntry ==
            IF event \in DOMAIN listeners THEN listeners
            ELSE [e \in DOMAIN listeners \cup {event} |->
                    IF e = event THEN <<>> ELSE listeners[e]]
    IN [withEntry EXCEPT ![event] = SetAdd(withEntry[event], handler)]

\* off(event, handler)
RegistryOff(listeners, event, handler) ==
    IF event \in DOMAIN listeners
    THEN [listeners EXCEPT ![event] = RemoveFrom(listeners[event], handler)]
    ELSE listeners

\* The handlers that throw when they are invoked.
RaisingHandlers == {"h2"}

\* The prefix of a log up to and including its first entry that raised.
UpToFirstRaise(log) ==
    IF \E i \in 1..Len(log) : log[i].raised
    THEN SubSeq(log, 1,
                CHOOSE i \in 1..Len(log) :
                    /\ log[i].raised
                    /\ \A j \in 1..(i - 1) : ~log[j].raised)
    ELSE log

\* One handler invocation inside emit's forEach: `raised` tells that the
\* handler threw into the try block around it.
Invocation(event, handler, payload, cur) ==
    [event |-> event, handler |-> handler, payload |-> payload, seen |-> cur,
     raised |-> handler \in RaisingHandlers]

\* Mutant of Emit: no try/catch around the handler, so the forEach stops at
\* the first handler that throws.
EmitUncaught(listeners, event, payload, cur) ==
    <<Invocation(event, "emit", payload, cur)>>
    \o (IF event \in DOMAIN listeners
        THEN UpToFirstRaise([i \in 1..Len(listeners[event]) |->
                Invocation(event, listeners[event][i], payload, cur)])
        ELSE <<>>)

\* emit(event, payload): one entry per handler invoked, in iteration order,
\* each after the emit itself. `seen` is what getCurrentUser() returns inside
\* the handler; handler "emit" marks the call of emit. The catch around each
\* handler lets the forEach go on after a handler that threw.
Emit(listeners, event, payload, cur) ==
    <<Invocation(event, "emit", payload, cur)>>
    \o (IF event \in DOMAIN listeners
        THEN [i \in 1..Len(listeners[event]) |->
                Invocation(event, listeners[event][i], payload, cur)]
        ELSE <<>>)

\* ------------------------------------------------------------------ storage

\* StorageManager's constructor: the backend it selects.
SelectBackend(injected, hasLocalStorage) ==
    IF injected THEN "custom"
    ELSE IF hasLocalStorage THEN "local"
    ELSE "memory"

\* StorageManager.clear(): the sweep runs only when the backend is
\* globalThis.localStorage, and nothing in clear() catches what the backend
\* raises.
StorageClear(kind, backendRaises) ==
    [threw |-> kind = "local" /\ backendRaises,
     error |-> RawError(<<"The operation is insecure">>)]

\* `${this.prefix}`: the default of the constructor's second parameter.
StoragePrefix == <<"a", "u", "t", "h", "_", "s", "d", "k", "_">>

\* getKey(key)
GetKey(key) == StoragePrefix \o key

\* A backend's contents: a set of [key, value] entries, one per key. A value
\* is a string; a read yields <<value>>, or <<>> for null or undefined.
Lookup(entries, key) ==
    IF \E p \in entries : p.key = key
    THEN <<(CHOOSE p \in entries : p.key = key).value>>
    ELSE <<>>

Delete(entries, key) == {p \in entries : p.key # key}

Put(entries, key, value) ==
    Delete(entries, key) \cup {[key |-> key, value |-> value]}

\* Mutant of BackendGetItem: every backend returns what its map holds.
BackendGetItemFaithful(kind, entries, key) == Lookup(entries, key)

\* storage.getItem(key) of the backend: MemoryStorage returns
\* `this.storage.get(key) || null`; localStorage and a conforming injected
\* backend return the stored string.
BackendGetItem(kind, entries, key) ==
    IF kind = "memory"
    THEN IF Lookup(entries, key) \in {<<>>, <<"">>} THEN <<>>
         ELSE Lookup(entries, key)
    ELSE Lookup(entries, key)

\* StorageManager.getItem(key); `raises`: the backend throws.
ManagerGetItem(kind, entries, key, raises) ==
    [result |-> IF raises THEN <<>>
                ELSE BackendGetItem(kind, entries, GetKey(key)),
     entries |-> entries, threw |-> FALSE]

\* Mutant of ManagerSetItem: the key reaches the backend without the prefix.
ManagerSetItemBare(kind, entries, key, value, raises) ==
    [result |-> <<>>,
     entries |-> IF raises THEN entries ELSE Put(entries, key, value),
     threw |-> FALSE]

\* StorageManager.setItem(key, value)
ManagerSetItem(kind, entries, key, value, raises) ==
    [result |-> <<>>,
     entries |-> IF raises THEN entries ELSE Put(entries, GetKey(key), value),
     threw |-> FALSE]

\* StorageManager.removeItem(key)
ManagerRemoveItem(kind, entries, key, raises) ==
    [result |-> <<>>,
     entries |-> IF raises THEN entries ELSE Delete(entries, GetKey(key)),
     threw |-> FALSE]

\* The keys clear() collects: those of the backend that start with the prefix.
PrefixedKeys(entries) ==
    {p.key : p \in {q \in entries : StartsWith(q.key, StoragePrefix)}}

\* StorageManager.clear(). The sweep runs only when the backend is
\* globalThis.localStorage and exposes length and key(). When the backend
\* throws, the keys in `removed` are gone already (none when length or key()
\* threw) and the exception leaves clear().
ManagerClear(kind, enumerates, entries, raises, removed) ==
    IF kind = "local"
    THEN IF StorageClear(kind, raises).threw
         THEN [result |-> <<>>,
               entries |-> {p \in entries : p.key \notin removed},
               threw |-> TRUE]
         ELSE [result |-> <<>>,
               entries |-> IF enumerates
                           THEN {p \in entries :
                                    p.key \notin PrefixedKeys(entries)}
                           ELSE entries,
               threw |-> FALSE]
    ELSE [result |-> <<>>, entries |-> entries, threw |-> FALSE]

\* ------------------------------------------------------------------ client

VARIABLES
    client,          \* "unborn", "live" or "failed" (the constructor threw)
    ctorError,       \* what the constructor threw
    storageKind,     \* the backend the StorageManager selected
    currentUser,     \* AuthClient.currentUser
    eventListeners,  \* AuthClient.eventListeners
    calls,           \* bag of the operations in flight
    callsLeft,       \* operations that may still be started
    regLeft,         \* on/off calls that may still be made
    requests,        \* fetch() invocations so far
    last             \* the latest step of the client, and what it did

\* A StorageManager used on its own (the package exports the class).
VARIABLES
    backendEnumerates,  \* the backend exposes length and key()
    backend,            \* the entries the backend holds
    written,            \* entries set through the manager and not touched since
    storageLast,        \* the latest operation on the manager
    storageOpsLeft      \* manager operations that may still be made

storageVars ==
    <<backendEnumerates, backend, written, storageLast, storageOpsLeft>>

\* An AuthProvider rendered around the client (react.tsx).
VARIABLES
    mounted,         \* the effect's flag: "no" before the effect ran, "yes"
                     \* while it is set up, "gone" after its cleanup
    providerUser,    \* the state `user`
    isLoading,       \* the state `isLoading`
    providerError,   \* the state `error`
    wrapper,         \* the wrapped action called last, and how far it is
    initial          \* the effect's initialize(), and how far it is

providerVars ==
    <<mounted, providerUser, isLoading, providerError, wrapper, initial>>

vars ==
    <<client, ctorError, storageKind, currentUser, eventListeners, calls,
      callsLeft, regLeft, requests, last, storageVars, providerVars>>

\* One operation in flight: pc is the await it is suspended at.
Call(op, via, pc, status, user) ==
    [op |-> op, via |-> via, pc |-> pc, status |-> status, user |-> user]

\* What a step of an operation does: the new cached user, the handler
\* invocations in order, how the promise settles, and how many times
\* storage.clear() was invoked.
Outcome(cur, log, settled, value, err, clears) ==
    [cur |-> cur, log |-> log, settled |-> settled, value |-> value,
     err |-> err, clears |-> clears]

NoLast ==
    [op |-> "none", via |-> "none", pre |-> Null, cur |-> Null, log |-> <<>>,
     settled |-> "none", value |-> Undefined, err |-> NoError, clears |-> 0,
     status |-> <<>>, ebody |-> <<>>, okbody |-> <<>>, decoded |-> NoError,
     rejected |-> FALSE, event |-> "none", handler |-> "none",
     known |-> FALSE, clientId |-> <<>>, awaited |-> <<>>]

\* The record of a settled step.
Settled(c, out, pre, status, ebody, okbody, decoded, rejected) ==
    [op |-> c.op, via |-> c.via, pre |-> pre, cur |-> out.cur, log |-> out.log,
     settled |-> out.settled, value |-> out.value, err |-> out.err,
     clears |-> out.clears, status |-> status, ebody |-> ebody,
     okbody |-> okbody, decoded |-> decoded, rejected |-> rejected,
     event |-> "none", handler |-> "none", known |-> FALSE,
     clientId |-> <<>>, awaited |-> <<>>]

\* The record of a constructor call: the clientId it was given.
Constructed(clientId) ==
    [NoLast EXCEPT !.op = "construct", !.via = "app", !.clientId = clientId]

\* The record of an operation being called.
Started(op) ==
    [NoLast EXCEPT !.op = op, !.via = "app", !.pre = currentUser,
                   !.cur = currentUser, !.settled = "pending"]

\* The record of an on() or off() call: its arguments, and whether the
\* handler was registered for the event when it was called.
Registered(op, event, handler) ==
    [NoLast EXCEPT !.op = op, !.via = "app", !.pre = currentUser,
                   !.cur = currentUser, !.event = event, !.handler = handler,
                   !.known = /\ event \in DOMAIN eventListeners
                             /\ InSeq(handler, eventListeners[event])]

\* The catch block of signUp and of signIn.
RethrowOrWrap(error) ==
    IF IsAuthError(error) THEN error ELSE NetworkError(MessageOf(error))

\* The private fetch wrapper, when the global fetch rejects with `thrown`.
FetchWrapperError(thrown) == NetworkError(MessageOf(thrown))

\* Mutant of Constructor: initialize() is started before the clientId is
\* checked.
ConstructorInitializesFirst(options) ==
    IF options.clientId = <<>> \/ options.clientId[1] = <<>>
    THEN [error |-> RawError(<<"clientId is required">>), storage |-> "none",
          initialize |-> options.window]
    ELSE IF ~StartsWith(options.clientId[1], AppPrefix)
    THEN [error |-> RawError(<<"clientId must start with \"app_\"">>),
          storage |-> "none", initialize |-> options.window]
    ELSE [error |-> NoError,
          storage |-> SelectBackend(options.storage, options.localStorage),
          initialize |-> options.window]

\* constructor(options): its checks, the storage it builds, and whether it
\* starts initialize().
Constructor(options) ==
    IF options.clientId = <<>> \/ options.clientId[1] = <<>>
    THEN [error |-> RawError(<<"clientId is required">>), storage |-> "none",
          initialize |-> FALSE]
    ELSE IF ~StartsWith(options.clientId[1], AppPrefix)
    THEN [error |-> RawError(<<"clientId must start with \"app_\"">>),
          storage |-> "none", initialize |-> FALSE]
    ELSE [error |-> NoError,
          storage |-> SelectBackend(options.storage, options.localStorage),
          initialize |-> options.window]

\* Mutant of SignUpSuccess: the events are emitted before the cached user is
\* replaced.
SignUpSuccessEmitsFirst(cur, listeners, user) ==
    Outcome(user,
            Emit(listeners, "signIn", user, cur)
                \o Emit(listeners, "userChanged", user, cur),
            "return", user, NoError, 0)

\* signUp, lines 87-95: the response was ok and its body gave `user`.
SignUpSuccess(cur, listeners, user) ==
    LET cur1 == user
    IN Outcome(cur1,
               Emit(listeners, "signIn", user, cur1)
                   \o Emit(listeners, "userChanged", user, cur1),
               "return", user, NoError, 0)

\* signUp, lines 96-103.
SignUpCatch(cur, error) ==
    Outcome(cur, <<>>, "throw", Undefined, RethrowOrWrap(error), 0)

\* Mutant of SignInSuccess: the result is returned without replacing the
\* cached user.
SignInSuccessKeepsUser(cur, listeners, user) ==
    Outcome(cur,
            Emit(listeners, "signIn", user, cur)
                \o Emit(listeners, "userChanged", user, cur),
            "return", user, NoError, 0)

\* signIn, lines 125-133.
SignInSuccess(cur, listeners, user) ==
    LET cur1 == user
    IN Outcome(cur1,
               Emit(listeners, "signIn", user, cur1)
                   \o Emit(listeners, "userChanged", user, cur1),
               "return", user, NoError, 0)

\* Mutant of SignInCatch: the failure is also emitted as an error event.
SignInCatchEmitsError(cur, error) ==
    Outcome(cur, Emit(eventListeners, "error", RethrowOrWrap(error), cur),
            "throw", Undefined, RethrowOrWrap(error), 0)

\* signIn, lines 134-141.
SignInCatch(cur, error) ==
    Outcome(cur, <<>>, "throw", Undefined, RethrowOrWrap(error), 0)

\* signOut, lines 167-180: the catch block, entered with `error`;
\* `raises` tells whether the backend raises inside storage.clear().
SignOutCatch(cur, listeners, kind, error, raises, clearsBefore) ==
    LET cur1 == Null
        cleared == StorageClear(kind, raises)
    IN IF cleared.threw
       THEN Outcome(cur1, <<>>, "throw", Undefined, cleared.error,
                    clearsBefore + 1)
       ELSE Outcome(cur1,
                    Emit(listeners, "signOut", Undefined, cur1)
                        \o Emit(listeners, "userChanged", Null, cur1),
                    "throw", Undefined, RethrowOrWrap(error), clearsBefore + 1)

\* signOut, lines 162-166 (and the catch block when storage.clear() throws
\* there): the response was ok.
SignOutSuccess(cur, listeners, kind, raises1, raises2) ==
    LET cur1 == Null
        cleared == StorageClear(kind, raises1)
    IN IF cleared.threw
       THEN SignOutCatch(cur1, listeners, kind, cleared.error, raises2, 1)
       ELSE Outcome(cur1,
                    Emit(listeners, "signOut", Undefined, cur1)
                        \o Emit(listeners, "userChanged", Null, cur1),
                    "return", Undefined, NoError, 1)

\* Mutant of GetUserUnauthorized: a 401 is raised like any other failure.
GetUserUnauthorizedRaises(cur) ==
    Outcome(cur, <<>>, "throw", Undefined,
            AuthenticationError(<<"An error occurred">>, 401), 0)

\* getUser, lines 197-201: HTTP 401.
GetUserUnauthorized(cur) ==
    Outcome(Null, <<>>, "return", Null, NoError, 0)

\* getUser, lines 205-210.
GetUserSuccess(cur, user) ==
    Outcome(user, <<>>, "return", user, NoError, 0)

\* Mutant of GetUserCatch: every failure clears the cached user, as
\* signOut's catch block does.
GetUserCatchClears(cur, error) ==
    IF IsAuthenticationError(error)
    THEN Outcome(Null, <<>>, "return", Null, NoError, 0)
    ELSE Outcome(Null, <<>>, "throw", Undefined, RethrowOrWrap(error), 0)

\* getUser, lines 211-222.
GetUserCatch(cur, error) ==
    IF IsAuthenticationError(error)
    THEN Outcome(Null, <<>>, "return", Null, NoError, 0)
    ELSE Outcome(cur, <<>>, "throw", Undefined, RethrowOrWrap(error), 0)

\* if (user): JavaScript truthiness of a User | null | undefined.
TruthyUser(user) == user # Null /\ user # Undefined

\* initialize, lines 58-62: getUser() resolved with a truthy user.
InitializeRestore(cur, listeners, user) ==
    LET cur1 == user
    IN Outcome(cur1,
               Emit(listeners, "signIn", user, cur1)
                   \o Emit(listeners, "userChanged", user, cur1),
               "return", Undefined, NoError, 0)

\* refreshSession, lines 237-240: the value it returns; the id is fixed and
\* the expiry is read off the clock.
SessionValue == "session_cookie"

\* How a promise settled: the part of an outcome its awaiter sees.
Settlement(out) ==
    [settled |-> out.settled, value |-> out.value, err |-> out.err]

\* Mutant of RefreshSessionContinues: a session is returned whatever
\* getUser() resolved with.
RefreshSessionContinuesLenient(out) ==
    IF out.settled = "throw" THEN out
    ELSE [out EXCEPT !.value = SessionValue]

\* refreshSession, lines 230-240: the rest of it after `await
\* this.getUser()`, when that promise settled with `out`. It has no try
\* block, so a rejection of getUser() is its own rejection.
RefreshSessionContinues(out) ==
    IF out.settled = "throw" THEN out
    ELSE IF ~TruthyUser(out.value)
    THEN [out EXCEPT !.settled = "throw", !.value = Undefined,
                     !.err = AuthenticationError(<<"Not authenticated">>,
                                                 401)]
    ELSE [out EXCEPT !.value = SessionValue]

\* getCurrentUser()
GetCurrentUser == currentUser

\* isAuthenticated()
IsAuthenticated == currentUser # Null

\* ------------------------------------------------------------------ inputs

ClientIds ==
    { <<>>, << <<>> >>, << <<"a", "p", "p">> >>, <<AppPrefix>>,
      <<AppPrefix \o <<"1">>>>, << <<"x">> \o AppPrefix >> }

\* What the global fetch can reject with.
FetchThrown == {RawError(<<"Failed to fetch">>), NonErrorThrown}

\* JSON.stringify(data) throwing (a circular structure, a BigInt).
StringifyError == RawError(<<"Converting circular structure to JSON">>)

\* Whether the storage backend raises when storage.clear() touches it; only
\* signOut calls storage.clear().
BackendRaises(c) == IF c.op = "signOut" THEN BOOLEAN ELSE {FALSE}

\* ---------------------------------------------------------------- provider

\* The handlers the effect subscribes, by the event each is subscribed to.
ProviderHandlers ==
    [signIn |-> "handleSignIn", signOut |-> "handleSignOut",
     userChanged |-> "handleUserChanged", error |-> "handleError"]

\* The state the handlers and the wrapped actions write.
ProviderState(u, e, l) == [user |-> u, error |-> e, isLoading |-> l]

\* One handler of the provider, invoked with `payload`.
HandlerRuns(state, handler, payload) ==
    CASE handler = "handleSignIn" ->
            [state EXCEPT !.user = payload, !.error = NoError]
      [] handler = "handleSignOut" ->
            [state EXCEPT !.user = Null, !.error = NoError]
      [] handler = "handleUserChanged" -> [state EXCEPT !.user = payload]
      [] handler = "handleError" -> [state EXCEPT !.error = payload]
      [] OTHER -> state

RECURSIVE HandlersRun(_, _, _)
\* The handler invocations of a log from the i-th on, applied in order.
HandlersRun(state, log, i) ==
    IF i > Len(log) THEN state
    ELSE HandlersRun(HandlerRuns(state, log[i].handler, log[i].payload),
                     log, i + 1)

\* A wrapped action or the effect's initialize(): `phase` is "idle",
\* "awaiting" the client's promise, or "done"; `raised` is what it threw to
\* its caller.
Task(op, phase, raised) == [op |-> op, phase |-> phase, raised |-> raised]

NoTask == Task("none", "idle", NoError)

\* err instanceof Error
IsError(e) == e.kind # "NonError"

\* Mutant of WrapperContinues: every catch block clears `user`, as
\* refreshUser's does.
WrapperContinuesClearsUser(state, op, out) ==
    IF out.settled = "return"
    THEN [state |-> [state EXCEPT !.user = IF op = "signOut" THEN Null
                                            ELSE out.value,
                                  !.isLoading = FALSE],
          raised |-> NoError]
    ELSE [state |-> [state EXCEPT !.error = out.err, !.user = Null,
                                  !.isLoading = FALSE],
          raised |-> IF op = "getUser" THEN NoError ELSE out.err]

\* Mutant of WrapperContinues: isLoading is cleared after the await instead
\* of in a finally block, so a failure leaves it set.
WrapperContinuesNoFinally(state, op, out) ==
    IF out.settled = "return"
    THEN [state |-> [state EXCEPT !.user = IF op = "signOut" THEN Null
                                            ELSE out.value,
                                  !.isLoading = FALSE],
          raised |-> NoError]
    ELSE IF op = "getUser"
    THEN [state |-> [state EXCEPT !.error = out.err, !.user = Null],
          raised |-> NoError]
    ELSE [state |-> [state EXCEPT !.error = out.err], raised |-> out.err]

\* The rest of the wrapped action of client.op() after the await, when the
\* client's promise settled with `out`: the statements after the await, or
\* the catch block, then the finally block.
WrapperContinues(state, op, out) ==
    IF out.settled = "return"
    THEN [state |-> [state EXCEPT !.user = IF op = "signOut" THEN Null
                                            ELSE out.value,
                                  !.isLoading = FALSE],
          raised |-> NoError]
    ELSE IF op = "getUser"
    THEN [state |-> [state EXCEPT !.error = out.err, !.user = Null,
                                  !.isLoading = FALSE],
          raised |-> NoError]
    ELSE [state |-> [state EXCEPT !.error = out.err, !.isLoading = FALSE],
          raised |-> out.err]

\* Mutant of InitializeContinuesInProvider: a failure leaves `user` alone.
InitializeContinuesKeepsUser(state, out, flag) ==
    IF flag # "yes" THEN state
    ELSE [state EXCEPT !.user = IF out.settled = "return" THEN out.value
                                ELSE state.user,
                       !.isLoading = FALSE]

\* Mutant of InitializeContinuesInProvider: the effect's flag is not tested.
InitializeContinuesUnguarded(state, out, flag) ==
    [state EXCEPT !.user = IF out.settled = "return" THEN out.value
                           ELSE IF IsError(out.err) THEN Null
                           ELSE state.user,
                  !.isLoading = FALSE]

\* The rest of the effect's initialize() after `await client.getUser()`,
\* when that promise settled with `out`.
InitializeContinuesInProvider(state, out, flag) ==
    IF flag # "yes" THEN state
    ELSE [state EXCEPT !.user = IF out.settled = "return" THEN out.value
                                ELSE IF IsError(out.err) THEN Null
                                ELSE state.user,
                       !.isLoading = FALSE]

\* The record of an operation on the manager: its arguments, what it
\* returned, whether it threw, and whether the backend threw inside it.
StorageOp(op, key, value, result, threw, raised) ==
    [op |-> op, key |-> key, value |-> value, result |-> result,
     threw |-> threw, raised |-> raised]

NoStorageOp == StorageOp("none", <<>>, "", <<>>, FALSE, FALSE)

\* ------------------------------------------------------------------ steps

\* No client has been constructed.
ClientInit(callBudget, regBudget) ==
    /\ client = "unborn"
    /\ ctorError = NoError
    /\ storageKind = "none"
    /\ currentUser = Null
    /\ eventListeners = <<>>
    /\ calls = EmptyBag
    /\ callsLeft = callBudget
    /\ regLeft = regBudget
    /\ requests = 0
    /\ last = NoLast

\* No StorageManager is used on its own.
StorageIdle(budget) ==
    /\ backendEnumerates = FALSE
    /\ backend = {}
    /\ written = {}
    /\ storageLast = NoStorageOp
    /\ storageOpsLeft = budget

\* No AuthProvider is rendered: its state holds the useState initialisers.
ProviderIdle ==
    /\ mounted = "no"
    /\ providerUser = Null
    /\ isLoading = TRUE
    /\ providerError = NoError
    /\ wrapper = NoTask
    /\ initial = NoTask

Init ==
    /\ ClientInit(MaxCalls, MaxRegOps)
    /\ StorageIdle(0)
    /\ ProviderIdle

Without(c) == calls (-) SetToBag({c})

\* What the provider does when a promise of the client settles with `out`:
\* its handlers have run inside the emits, and the wrapped action or the
\* initialize() that awaits the promise continues as soon as the client's
\* code has returned.
ProviderReacts(c, out) ==
    LET seen == HandlersRun(ProviderState(providerUser, providerError,
                                          isLoading), out.log, 1)
        wrapped == WrapperContinues(seen, c.op, out)
        after == CASE c.via = "wrapper" -> wrapped.state
                   [] c.via = "mount" ->
                        InitializeContinuesInProvider(seen, out, mounted)
                   [] OTHER -> seen
    IN /\ providerUser' = after.user
       /\ providerError' = after.error
       /\ isLoading' = after.isLoading
       /\ wrapper' = IF c.via = "wrapper"
                     THEN [wrapper EXCEPT !.phase = "done",
                                          !.raised = wrapped.raised]
                     ELSE wrapper
       /\ initial' = IF c.via = "mount"
                     THEN [initial EXCEPT !.phase = "done"]
                     ELSE initial
       /\ UNCHANGED mounted

\* An operation's promise settles with `out`. When it is the getUser() that
\* initialize() awaits and it resolved with a truthy user, initialize()
\* resumes in a later step; when it threw, initialize() swallows it.
Settle(c, out, status, ebody, okbody, decoded, rejected) ==
    /\ currentUser' = out.cur
    /\ last' = IF c.via = "refresh"
               THEN [Settled(c, RefreshSessionContinues(out), currentUser,
                             status, ebody, okbody, decoded, rejected)
                       EXCEPT !.op = "refreshSession",
                              !.awaited = <<Settlement(out)>>]
               ELSE Settled(c, out, currentUser, status, ebody, okbody,
                            decoded, rejected)
    /\ calls' =
         IF c.via = "init" /\ c.op = "getUser" /\ out.settled = "return"
            /\ TruthyUser(out.value)
         THEN Without(c) (+) SetToBag({Call("initialize", "init", "cont", 0,
                                            out.value)})
         ELSE Without(c)
    /\ ProviderReacts(c, out)

\* The catch block of the operation c, entered with `error`.
OpCatch(c, error, raises) ==
    CASE c.op = "signUp" -> SignUpCatch(currentUser, error)
      [] c.op = "signIn" -> SignInCatch(currentUser, error)
      [] c.op = "signOut" ->
            SignOutCatch(currentUser, eventListeners, storageKind, error,
                         raises, 0)
      [] c.op = "getUser" -> GetUserCatch(currentUser, error)

\* The statements of the operation c after its success body gave `user`.
OpSuccess(c, user) ==
    CASE c.op = "signUp" -> SignUpSuccess(currentUser, eventListeners, user)
      [] c.op = "signIn" -> SignInSuccess(currentUser, eventListeners, user)
      [] c.op = "getUser" -> GetUserSuccess(currentUser, user)

\* new AuthClient(options)
Construct ==
    /\ client = "unborn"
    /\ \E id \in ClientIds, injected \in BOOLEAN, ls \in BOOLEAN,
          win \in BOOLEAN :
         LET r == Constructor([clientId |-> id, storage |-> injected,
                               localStorage |-> ls, window |-> win])
         IN /\ last' = Constructed(id)
            /\ client' = IF r.error = NoError THEN "live" ELSE "failed"
            /\ ctorError' = r.error
            /\ storageKind' = r.storage
            /\ IF r.initialize /\ callsLeft > 0
               THEN /\ calls' = calls (+) SetToBag({Call("getUser", "init",
                                                        "fetch", 0, Undefined)})
                    /\ callsLeft' = callsLeft - 1
                    /\ requests' = requests + 1
               ELSE UNCHANGED <<calls, callsLeft, requests>>
    /\ UNCHANGED <<currentUser, eventListeners, regLeft>>
    /\ UNCHANGED storageVars
    /\ UNCHANGED providerVars

\* client.on(event, handler)
On ==
    /\ client = "live"
    /\ regLeft > 0
    /\ \E e \in Events, h \in Handlers :
         /\ eventListeners' = RegistryOn(eventListeners, e, h)
         /\ last' = Registered("on", e, h)
    /\ regLeft' = regLeft - 1
    /\ UNCHANGED <<client, ctorError, storageKind, currentUser, calls,
                   callsLeft, requests>>
    /\ UNCHANGED storageVars
    /\ UNCHANGED providerVars

\* client.off(event, handler)
Off ==
    /\ client = "live"
    /\ regLeft > 0
    /\ \E e \in Events, h \in Handlers :
         /\ eventListeners' = RegistryOff(eventListeners, e, h)
         /\ last' = Registered("off", e, h)
    /\ regLeft' = regLeft - 1
    /\ UNCHANGED <<client, ctorError, storageKind, currentUser, calls,
                   callsLeft, requests>>
    /\ UNCHANGED storageVars
    /\ UNCHANGED providerVars

\* An operation is called while fewer than `cap` operations are in flight:
\* up to its first await. signUp and signIn build the request body first,
\* inside their try block.
StartUnder(cap, op, serializable) ==
    /\ callsLeft > 0
    /\ BagCardinality(calls) < cap
    /\ callsLeft' = callsLeft - 1
    /\ LET c == Call(op, "app", "fetch", 0, Undefined)
       IN IF serializable
          THEN /\ calls' = calls (+) SetToBag({c})
               /\ requests' = requests + 1
               /\ last' = Started(op)
               /\ UNCHANGED <<currentUser, providerVars>>
          ELSE /\ Settle(c, OpCatch(c, StringifyError, FALSE), <<>>, <<>>,
                         <<>>, NoError, FALSE)
               /\ UNCHANGED requests
    /\ UNCHANGED <<client, ctorError, storageKind, eventListeners, regLeft>>
    /\ UNCHANGED storageVars

Start(op, serializable) == StartUnder(MaxInFlight, op, serializable)

\* client.signUp(data)
SignUp ==
    /\ client = "live"
    /\ \E serializable \in BOOLEAN : Start("signUp", serializable)

\* client.signIn(data)
SignIn ==
    /\ client = "live"
    /\ \E serializable \in BOOLEAN : Start("signIn", serializable)

\* client.signOut()
SignOut ==
    /\ client = "live"
    /\ Start("signOut", TRUE)

\* client.getUser()
GetUser ==
    /\ client = "live"
    /\ Start("getUser", TRUE)

\* client.refreshSession(): up to its await of this.getUser(), which runs
\* up to its own first await.
RefreshSessionUnder(cap) ==
    /\ callsLeft > 0
    /\ BagCardinality(calls) < cap
    /\ callsLeft' = callsLeft - 1
    /\ calls' = calls (+) SetToBag({Call("getUser", "refresh", "fetch", 0,
                                         Undefined)})
    /\ requests' = requests + 1
    /\ last' = [Started("refreshSession") EXCEPT !.via = "refresh"]
    /\ UNCHANGED <<client, ctorError, storageKind, currentUser, eventListeners,
                   regLeft>>
    /\ UNCHANGED storageVars
    /\ UNCHANGED providerVars

RefreshSession ==
    /\ client = "live"
    /\ RefreshSessionUnder(MaxInFlight)

\* The global fetch rejects: no HTTP response was obtained.
FetchRejects ==
    /\ \E c \in BagToSet(calls) :
       \E thrown \in FetchThrown, raises \in BackendRaises(c) :
         /\ c.pc = "fetch"
         /\ Settle(c, OpCatch(c, FetchWrapperError(thrown), raises), <<>>,
                   <<>>, <<>>, NoError, TRUE)
    /\ UNCHANGED <<client, ctorError, storageKind, eventListeners, callsLeft,
                   regLeft, requests>>
    /\ UNCHANGED storageVars

\* The global fetch resolves with a response: the test of response.ok, and
\* the branches that do not read the body.
ResponseArrives ==
    /\ \E c \in BagToSet(calls) :
       \E status \in Statuses, raises1 \in BackendRaises(c),
          raises2 \in BackendRaises(c) :
         /\ c.pc = "fetch"
         /\ IF ~ResponseOk(status)
            THEN IF c.op = "getUser" /\ status = 401
                 THEN Settle(c, GetUserUnauthorized(currentUser), <<status>>,
                             <<>>, <<>>, NoError, FALSE)
                 ELSE /\ calls' = Without(c) (+)
                            SetToBag({[c EXCEPT !.pc = "errjson",
                                                !.status = status]})
                      /\ UNCHANGED <<currentUser, last, providerVars>>
            ELSE IF c.op = "signOut"
                 THEN Settle(c, SignOutSuccess(currentUser, eventListeners,
                                               storageKind, raises1, raises2),
                             <<status>>, <<>>, <<>>, NoError, FALSE)
                 ELSE /\ calls' = Without(c) (+)
                            SetToBag({[c EXCEPT !.pc = "json",
                                                !.status = status]})
                      /\ UNCHANGED <<currentUser, last, providerVars>>
    /\ UNCHANGED <<client, ctorError, storageKind, eventListeners, callsLeft,
                   regLeft, requests>>
    /\ UNCHANGED storageVars

\* handleErrorResponse resumes after `await response.json()` and throws into
\* the operation's catch block.
ErrorBodyRead ==
    /\ \E c \in BagToSet(calls) :
       \E body \in ErrorBodies, raises \in BackendRaises(c) :
         /\ c.pc = "errjson"
         /\ LET decoded == HandleErrorResponse(c.status, body)
            IN Settle(c, OpCatch(c, decoded, raises), <<c.status>>, <<body>>,
                      <<>>, decoded, FALSE)
    /\ UNCHANGED <<client, ctorError, storageKind, eventListeners, callsLeft,
                   regLeft, requests>>
    /\ UNCHANGED storageVars

\* signUp, signIn and getUser resume after `await response.json()` of an ok
\* response.
OkBodyRead ==
    /\ \E c \in BagToSet(calls), body \in OkBodies :
         /\ c.pc = "json"
         /\ LET read == DecodeUser(body)
            IN Settle(c,
                      IF read.threw THEN OpCatch(c, read.error, FALSE)
                      ELSE OpSuccess(c, read.user),
                      <<c.status>>, <<>>, <<body>>, NoError, FALSE)
    /\ UNCHANGED <<client, ctorError, storageKind, eventListeners, callsLeft,
                   regLeft, requests>>
    /\ UNCHANGED storageVars

\* initialize() resumes after `await this.getUser()` with a truthy user.
InitializeContinues ==
    /\ \E c \in BagToSet(calls) :
         /\ c.pc = "cont"
         /\ Settle(c, InitializeRestore(currentUser, eventListeners, c.user),
                   <<>>, <<>>, <<>>, NoError, FALSE)
    /\ UNCHANGED <<client, ctorError, storageKind, eventListeners, callsLeft,
                   regLeft, requests>>
    /\ UNCHANGED storageVars

Next ==
    \/ Construct
    \/ On
    \/ Off
    \/ SignUp
    \/ SignIn
    \/ SignOut
    \/ GetUser
    \/ RefreshSession
    \/ FetchRejects
    \/ ResponseArrives
    \/ ErrorBodyRead
    \/ OkBodyRead
    \/ InitializeContinues

Spec == Init /\ [][Next]_vars

\* ------------------------------------------------------- storage manager

\* The keys and values the application passes to the manager.
StorageKeys == {<<>>, <<"k">>}

StorageValues == {"", "v"}

\* What a shared backend can hold when the manager is constructed: keys of
\* other code on the page, and a key the manager's namespace kept from an
\* earlier session.
InitialEntries ==
    SUBSET { [key |-> <<"k">>, value |-> "o"],
             [key |-> <<"a", "u", "t", "h">>, value |-> "o"],
             [key |-> GetKey(<<"k">>), value |-> "old"] }

\* Whether the backend can throw: MemoryStorage is a Map and never does.
BackendMayRaise(kind) == IF kind = "memory" THEN {FALSE} ELSE BOOLEAN

\* The keys a sweep has removed when the backend throws in the middle of it.
PartialSweeps(entries) ==
    {S \in SUBSET PrefixedKeys(entries) :
        S # PrefixedKeys(entries) \/ S = {}}

\* The entries of `written` that a step from `before` to `after` left alone.
StillWritten(marks, before, after) ==
    {w \in marks :
        Lookup(after, GetKey(w.key)) = Lookup(before, GetKey(w.key))}

StorageInit ==
    /\ ClientInit(MaxCalls, MaxRegOps)
    /\ StorageIdle(MaxStorageOps)
    /\ ProviderIdle

\* new StorageManager(storage?)
NewStorageManager ==
    /\ storageKind = "none"
    /\ \E injected \in BOOLEAN, ls \in BOOLEAN, enum \in BOOLEAN :
         LET kind == SelectBackend(injected, ls)
         IN /\ storageKind' = kind
            /\ backendEnumerates' =
                 CASE kind = "local" -> TRUE
                   [] kind = "memory" -> FALSE
                   [] OTHER -> enum
            /\ backend' \in IF kind = "memory" THEN {{}} ELSE InitialEntries
    /\ written' = {}
    /\ storageLast' = StorageOp("new", <<>>, "", <<>>, FALSE, FALSE)
    /\ UNCHANGED <<client, ctorError, currentUser, eventListeners, calls,
                   callsLeft, regLeft, requests, last, storageOpsLeft>>
    /\ UNCHANGED providerVars

\* One operation on the manager, with result `r`.
ManagerStep(op, key, value, r, raised) ==
    /\ storageOpsLeft' = storageOpsLeft - 1
    /\ backend' = r.entries
    /\ storageLast' = StorageOp(op, key, value, r.result, r.threw, raised)
    /\ UNCHANGED <<client, ctorError, storageKind, currentUser,
                   eventListeners, calls, callsLeft, regLeft, requests, last,
                   backendEnumerates>>
    /\ UNCHANGED providerVars

\* manager.setItem(key, value)
SetItem ==
    /\ storageKind # "none"
    /\ storageOpsLeft > 0
    /\ \E key \in StorageKeys, value \in StorageValues,
          raises \in BackendMayRaise(storageKind) :
         /\ ManagerStep("setItem", key, value,
                        ManagerSetItem(storageKind, backend, key, value,
                                       raises),
                        raises)
         /\ written' = IF raises THEN written ELSE Put(written, key, value)

\* manager.getItem(key)
GetItem ==
    /\ storageKind # "none"
    /\ storageOpsLeft > 0
    /\ \E key \in StorageKeys, raises \in BackendMayRaise(storageKind) :
         ManagerStep("getItem", key, "",
                     ManagerGetItem(storageKind, backend, key, raises),
                     raises)
    /\ UNCHANGED written

\* manager.removeItem(key)
RemoveItem ==
    /\ storageKind # "none"
    /\ storageOpsLeft > 0
    /\ \E key \in StorageKeys, raises \in BackendMayRaise(storageKind) :
         /\ ManagerStep("removeItem", key, "",
                        ManagerRemoveItem(storageKind, backend, key, raises),
                        raises)
         /\ written' = IF raises THEN written ELSE Delete(written, key)

\* manager.clear()
Clear ==
    /\ storageKind # "none"
    /\ storageOpsLeft > 0
    /\ \E raises \in BackendMayRaise(storageKind) :
       \E removed \in IF raises THEN PartialSweeps(backend) ELSE {{}} :
         /\ ManagerStep("clear", <<>>, "",
                        ManagerClear(storageKind, backendEnumerates, backend,
                                     raises, removed),
                        raises)
         /\ written' = StillWritten(written, backend, backend')

StorageNext ==
    \/ NewStorageManager
    \/ SetItem
    \/ GetItem
    \/ RemoveItem
    \/ Clear

StorageSpec == StorageInit /\ [][StorageNext]_vars

\* ------------------------------------------------------------------ claims

\* The calls of emit in a log, and the handler invocations in it.
EmitsOf(log) == SelectSeq(log, LAMBDA x : x.handler = "emit")

EmitsOfEvent(log, event) ==
    SelectSeq(log, LAMBDA x : x.handler = "emit" /\ x.event = event)

IsRegistered(listeners, event, handler) ==
    event \in DOMAIN listeners /\ InSeq(handler, listeners[event])

\* The latest step settled a client operation.
OperationSettled == last.op \in Ops /\ last.settled \in {"return", "throw"}

\* The success body of the latest step carries a user.
CarriesUser ==
    /\ last.okbody # <<>>
    /\ last.okbody[1].parse
    /\ last.okbody[1].data # <<>>
    /\ last.okbody[1].data[1].user # <<>>
    /\ last.okbody[1].data[1].user[1] \in Users

\* C1: when signIn or signUp has processed an HTTP success response that
\* carries a user, the call returns, getCurrentUser() is exactly that user
\* and isAuthenticated() is true, until the client takes its next step.
C1_SignInCachesUser ==
    (last.op \in {"signUp", "signIn"} /\ CarriesUser) =>
        /\ last.settled = "return"
        /\ GetCurrentUser = last.okbody[1].data[1].user[1]
        /\ last.value = last.okbody[1].data[1].user[1]
        /\ IsAuthenticated

\* A second sign-in replaced another cached user.
C1_Witness ==
    /\ last.op = "signIn"
    /\ CarriesUser
    /\ last.pre \in Users
    /\ last.pre # currentUser

\* The remote part of the latest operation failed: no response, or non-2xx.
RemoteFailed ==
    \/ last.rejected
    \/ last.status # <<>> /\ ~ResponseOk(last.status[1])

\* C2: when signOut settles, whatever the remote outcome, the cached user is
\* null, isAuthenticated() is false, storage.clear() has been invoked, signOut
\* and userChanged(null) have been emitted, and a failed remote call raises a
\* taxonomy error.
C2_SignOutAlwaysCleansUp ==
    (last.op = "signOut" /\ OperationSettled) =>
        /\ GetCurrentUser = Null
        /\ ~IsAuthenticated
        /\ last.clears >= 1
        /\ Len(EmitsOf(last.log)) = 2
        /\ EmitsOf(last.log)[1].event = "signOut"
        /\ EmitsOf(last.log)[2].event = "userChanged"
        /\ EmitsOf(last.log)[2].payload = Null
        /\ RemoteFailed => (last.settled = "throw" /\ IsAuthError(last.err))

\* The latest step is one of the operations that write the cached user.
MutatedCachedUser ==
    \/ last.op \in {"signUp", "signIn", "getUser"} /\ last.settled = "return"
    \/ last.op = "signOut" /\ OperationSettled

\* C3: every operation that writes the cached user emits userChanged exactly
\* once, with the new cached value as payload.
C3_UserChangedOncePerMutation ==
    MutatedCachedUser =>
        /\ Len(EmitsOfEvent(last.log, "userChanged")) = 1
        /\ EmitsOfEvent(last.log, "userChanged")[1].payload = last.cur

\* C4: a handler invoked for signIn, signOut or userChanged reads from
\* getCurrentUser() the user of the event (null for signOut), which is the
\* cached user the operation leaves and the user it returns.
C4_HandlersSeeNewState ==
    \A i \in 1..Len(last.log) :
        last.log[i].handler \in Handlers =>
            /\ last.log[i].event \in {"signIn", "signOut", "userChanged"}
            /\ last.log[i].seen =
                 IF last.log[i].event = "signOut" THEN Null
                 ELSE last.log[i].payload
            /\ last.log[i].seen = GetCurrentUser
            /\ last.op \in {"signUp", "signIn"} =>
                 (last.settled = "return" /\ last.log[i].payload = last.value)
            /\ last.op = "signOut" => last.log[i].seen = Null

\* A handler ran during a signUp that changed the cached user.
C4_Witness ==
    /\ last.op = "signUp"
    /\ last.pre # last.cur
    /\ \E i \in 1..Len(last.log) : last.log[i].handler \in Handlers

\* C5: a 401 from /user makes getUser() resolve to null with the cached user
\* null, without reading the body and without raising; the catch block does
\* the same for an Authentication-kind error.
C5_GetUser401ResolvesNull ==
    /\ (last.op = "getUser" /\ last.status = <<401>>) =>
          /\ last.settled = "return"
          /\ last.value = Null
          /\ last.err = NoError
          /\ last.ebody = <<>>
          /\ GetCurrentUser = Null
    /\ \A cur \in UserValues, status \in Statuses :
          /\ GetUserCatch(cur, AuthenticationError(<<"denied">>, status)).settled
               = "return"
          /\ GetUserCatch(cur, AuthenticationError(<<"denied">>, status)).value
               = Null
          /\ GetUserCatch(cur, AuthenticationError(<<"denied">>, status)).cur
               = Null

\* getUser met a 401 while a user was cached.
C5_Witness ==
    /\ last.op = "getUser"
    /\ last.status = <<401>>
    /\ last.pre \in Users

\* The error decoding of the latest step read a body that parsed to an object.
DecodedObject ==
    /\ last.ebody # <<>>
    /\ last.ebody[1].parse
    /\ last.ebody[1].object

\* The optional strings that are falsy: undefined and the empty string.
FalsyMessage == {<<>>, << <<>> >>}

FalsyCode == {<<>>, <<"">>}

\* What the envelope's message, code and errors are, read off the body: the
\* top-level member, else the nested one, else the default.
C6_Message(body) ==
    IF body.message \notin FalsyMessage THEN body.message[1]
    ELSE IF body.error # <<>> /\ body.error[1].message \notin FalsyMessage
    THEN body.error[1].message[1]
    ELSE <<"An error occurred">>

C6_Code(body) ==
    IF body.code \notin FalsyCode THEN body.code[1]
    ELSE IF body.error # <<>> /\ body.error[1].code \notin FalsyCode
    THEN body.error[1].code[1]
    ELSE "UNKNOWN_ERROR"

C6_Errors(body) ==
    IF body.errors # <<>> THEN body.errors
    ELSE IF body.error # <<>> THEN body.error[1].errors
    ELSE <<>>

C6_Kind(status) ==
    CASE status = 401 -> "AuthenticationError"
      [] status = 404 -> "NotFoundError"
      [] status = 422 -> "ValidationError"
      [] OTHER -> "AuthError"

\* C6: for a non-2xx response whose body parses to an object, the kind of the
\* decoded error depends on the status alone; 422 carries the body's field
\* errors with status 422; any status other than 401, 404 and 422 carries the
\* extracted code, message, status and field errors; signUp, signIn and
\* getUser raise the decoded error.
C6_StatusSelectsErrorKind ==
    DecodedObject =>
        /\ last.decoded.kind = C6_Kind(last.status[1])
        /\ last.status[1] = 422 =>
              /\ last.decoded.errors = C6_Errors(last.ebody[1])
              /\ last.decoded.status = <<422>>
        /\ last.status[1] \notin {401, 404, 422} =>
              /\ last.decoded.code = <<C6_Code(last.ebody[1])>>
              /\ last.decoded.message = C6_Message(last.ebody[1])
              /\ last.decoded.status = last.status
              /\ last.decoded.errors = C6_Errors(last.ebody[1])
        /\ last.op \in {"signUp", "signIn", "getUser"} =>
              (last.settled = "throw" /\ last.err = last.decoded)

\* signUp met the documented 422 body.
C6_Witness ==
    /\ DecodedObject
    /\ last.op = "signUp"
    /\ last.status = <<422>>
    /\ last.ebody[1].message = << <<"bad input">> >>
    /\ last.err.kind = "ValidationError"
    /\ last.err.errors = <<FieldErrors>>

C7_Message(status) ==
    CASE status = 401 -> <<"Request failed with status ", "4", "0", "1">>
      [] status = 404 -> <<"Request failed with status ", "4", "0", "4">>
      [] status = 422 -> <<"Request failed with status ", "4", "2", "2">>
      [] status = 500 -> <<"Request failed with status ", "5", "0", "0">>

\* C7: when the body of a non-2xx response is no JSON, the decoded error is
\* the generic kind with code UNKNOWN_ERROR, the response's status and the
\* message "Request failed with status S", whatever S is; signUp, signIn and
\* getUser raise it.
C7_UnparsableBodyIsGeneric ==
    (last.ebody # <<>> /\ ~last.ebody[1].parse) =>
        /\ last.decoded.kind = "AuthError"
        /\ last.decoded.code = <<"UNKNOWN_ERROR">>
        /\ last.decoded.status = last.status
        /\ last.decoded.message = C7_Message(last.status[1])
        /\ last.decoded.errors = <<>>
        /\ last.op \in {"signUp", "signIn", "getUser"} =>
              (last.settled = "throw" /\ last.err = last.decoded)

\* signIn met a 401 whose body is no JSON.
C7_Witness ==
    /\ last.op = "signIn"
    /\ last.status = <<401>>
    /\ last.ebody # <<>>
    /\ ~last.ebody[1].parse
    /\ last.settled = "throw"

\* C8: an operation that raises, raises the decoded taxonomy error unchanged
\* when one was decoded, and otherwise a Network-kind error with code
\* NETWORK_ERROR and status 0.
C8_RaisedErrorsAreTaxonomy ==
    (OperationSettled /\ last.settled = "throw") =>
        IF last.decoded # NoError
        THEN last.err = last.decoded
        ELSE /\ last.err.kind = "NetworkError"
             /\ last.err.code = <<"NETWORK_ERROR">>
             /\ last.err.status = <<0>>

\* A clientId that is missing, empty, or does not begin with app_.
C9_BadId(id) ==
    \/ id = <<>>
    \/ Len(id[1]) < 4
    \/ id[1][1] # "a"
    \/ id[1][2] # "p"
    \/ id[1][3] # "p"
    \/ id[1][4] # "_"

\* C9: a constructor call with a missing, empty or wrongly prefixed clientId
\* throws with no request issued and no restore started, and no operation
\* ever runs on a client whose construction failed.
C9_BadClientIdFailsFirst ==
    /\ (last.op = "construct" /\ C9_BadId(last.clientId)) =>
          /\ client = "failed"
          /\ ctorError.kind = "Error"
    /\ client = "failed" =>
          /\ requests = 0
          /\ BagCardinality(calls) = 0
          /\ callsLeft = MaxCalls
          /\ currentUser = Null
          /\ DOMAIN eventListeners = {}

\* The constructor refused an id that contains app_ without starting with it.
C9_Witness ==
    /\ client = "failed"
    /\ last.clientId = << <<"x">> \o AppPrefix >>

NoRepeat(s) == \A i, j \in 1..Len(s) : i # j => s[i] # s[j]

InvocationCount(log, event, handler) ==
    Len(SelectSeq(log, LAMBDA x : x.event = event /\ x.handler = handler))

C10_State ==
    /\ \A e \in DOMAIN eventListeners : NoRepeat(eventListeners[e])
    /\ last.op = "on" => IsRegistered(eventListeners, last.event, last.handler)
    /\ last.op = "off" =>
          ~IsRegistered(eventListeners, last.event, last.handler)
    /\ last.op \in Ops \cup {"initialize"} =>
          \A e \in Events, h \in Handlers :
              InvocationCount(last.log, e, h) =
                  IF IsRegistered(eventListeners, e, h)
                  THEN Len(EmitsOfEvent(last.log, e))
                  ELSE 0

C10_Step ==
    /\ (last'.op = "on" /\ regLeft' # regLeft
        /\ IsRegistered(eventListeners, last'.event, last'.handler)) =>
          eventListeners' = eventListeners
    /\ (last'.op = "off" /\ regLeft' # regLeft
        /\ ~IsRegistered(eventListeners, last'.event, last'.handler)) =>
          eventListeners' = eventListeners

\* C10: a handler is stored once however often it is registered, so an
\* emission invokes each registered handler exactly once and no handler that
\* was removed; registering a registered handler, or removing one that is not
\* registered, leaves the registry as it was.
C10_RegistrationIdempotent == [](C10_State) /\ [][C10_Step]_vars

\* on() was called for a handler already registered for that event.
C10_Witness == last.op = "on" /\ last.known

\* A handler threw during the latest step.
HandlerRaised == \E i \in 1..Len(last.log) : last.log[i].raised

\* C11: when a handler throws during an emission, every handler registered
\* for each emitted event is still invoked once per emission, the second
\* event of the operation (userChanged) is still emitted, and the operation
\* settles as it would have: a successful signUp or signIn returns its result
\* with the user of the body that was emitted, and signOut raises only for a
\* failed request or a failed storage sweep.
C11_HandlerRaiseIsContained ==
    (last.op \in Ops \cup {"initialize"} /\ HandlerRaised) =>
        /\ \A e \in Events, h \in Handlers :
              IsRegistered(eventListeners, e, h) =>
                  InvocationCount(last.log, e, h)
                      = Len(EmitsOfEvent(last.log, e))
        /\ Len(EmitsOf(last.log)) = 2
        /\ EmitsOf(last.log)[2].event = "userChanged"
        /\ last.op \in {"signUp", "signIn"} =>
              /\ last.settled = "return"
              /\ last.err = NoError
              /\ last.okbody # <<>>
              /\ last.okbody[1].data # <<>>
              /\ last.value = EmitsOf(last.log)[1].payload
        /\ (last.op = "signOut" /\ last.settled = "throw") =>
              (RemoteFailed \/ last.clears > 1)

\* During a signIn the first handler registered for signIn threw and the
\* second one was invoked after it.
C11_Witness ==
    /\ last.op = "signIn"
    /\ last.settled = "return"
    /\ \E i \in 1..Len(last.log) :
          /\ last.log[i].raised
          /\ last.log[i].event = "signIn"
          /\ i < Len(last.log)
          /\ last.log[i + 1].event = "signIn"
          /\ last.log[i + 1].handler \in Handlers \ RaisingHandlers

\* ------------------------------------------------------- provider steps

\* The initialUser prop.
InitialUsers == {Null, "u1"}

\* The record of the provider calling an operation of the client.
StartedBy(op, via) == [Started(op) EXCEPT !.via = via]

\* client.op() called by the provider: up to the await of fetch.
ProviderCalls(op, via) ==
    /\ callsLeft > 0
    /\ callsLeft' = callsLeft - 1
    /\ calls' = calls (+) SetToBag({Call(op, via, "fetch", 0, Undefined)})
    /\ requests' = requests + 1
    /\ last' = StartedBy(op, via)
    /\ UNCHANGED <<client, ctorError, storageKind, currentUser, regLeft>>
    /\ UNCHANGED storageVars

RECURSIVE Subscribe(_, _)
\* client.on(event, handler) for each event of a sequence.
Subscribe(listeners, events) ==
    IF events = <<>> THEN listeners
    ELSE Subscribe(RegistryOn(listeners, Head(events),
                              ProviderHandlers[Head(events)]),
                   Tail(events))

RECURSIVE UnsubscribeAllButLast(_, _)
\* Mutant of Unsubscribe: the cleanup leaves the handler of the last event
\* subscribed.
UnsubscribeAllButLast(listeners, events) ==
    IF Len(events) <= 1 THEN listeners
    ELSE UnsubscribeAllButLast(RegistryOff(listeners, Head(events),
                                           ProviderHandlers[Head(events)]),
                               Tail(events))

RECURSIVE Unsubscribe(_, _)
\* client.off(event, handler) for each event of a sequence.
Unsubscribe(listeners, events) ==
    IF events = <<>> THEN listeners
    ELSE Unsubscribe(RegistryOff(listeners, Head(events),
                                 ProviderHandlers[Head(events)]),
                     Tail(events))

\* The order in which the effect subscribes, and its cleanup unsubscribes.
SubscribedEvents == <<"signIn", "signOut", "userChanged", "error">>

ProviderInit ==
    /\ ClientInit(MaxProviderCalls, MaxProviderRegOps)
    /\ StorageIdle(0)
    /\ ProviderIdle

\* The provider renders and its effect runs: initialize() is called and
\* suspends at client.getUser(), then the four handlers are subscribed.
Mount ==
    /\ client = "live"
    /\ mounted = "no"
    /\ \E initialUser \in InitialUsers :
         /\ providerUser' = initialUser
         /\ initial' = Task("getUser", "awaiting", NoError)
    /\ isLoading' = TRUE
    /\ providerError' = NoError
    /\ ProviderCalls("getUser", "mount")
    /\ eventListeners' = Subscribe(eventListeners, SubscribedEvents)
    /\ mounted' = "yes"
    /\ UNCHANGED wrapper

\* The effect's cleanup.
Unmount ==
    /\ mounted = "yes"
    /\ mounted' = "gone"
    /\ eventListeners' = Unsubscribe(eventListeners, SubscribedEvents)
    /\ last' = [NoLast EXCEPT !.op = "cleanup", !.via = "mount",
                              !.pre = currentUser, !.cur = currentUser]
    /\ UNCHANGED <<client, ctorError, storageKind, currentUser, calls,
                   callsLeft, regLeft, requests, providerUser, isLoading,
                   providerError, wrapper, initial>>
    /\ UNCHANGED storageVars

\* A wrapped action is called while fewer than `cap` operations are in
\* flight: up to `await client.op()`. refreshUser does not clear the error.
WrappedUnder(cap, op) ==
    /\ mounted = "yes"
    /\ wrapper.phase # "awaiting"
    /\ BagCardinality(calls) < cap
    /\ isLoading' = TRUE
    /\ providerError' = IF op = "getUser" THEN providerError ELSE NoError
    /\ wrapper' = Task(op, "awaiting", NoError)
    /\ ProviderCalls(op, "wrapper")
    /\ UNCHANGED <<eventListeners, mounted, providerUser, initial>>

Wrapped(op) == WrappedUnder(MaxInFlight, op)

\* useAuth().signUp(data)
WrappedSignUp == Wrapped("signUp") /\ client = "live"

\* useAuth().signIn(data)
WrappedSignIn == Wrapped("signIn") /\ client = "live"

\* useAuth().signOut()
WrappedSignOut == Wrapped("signOut") /\ client = "live"

\* useAuth().refreshUser()
RefreshUser == Wrapped("getUser") /\ client = "live"

\* useAuth().clearError(), while an error is held
ClearError ==
    /\ mounted = "yes"
    /\ providerError # NoError
    /\ providerError' = NoError
    /\ last' = [NoLast EXCEPT !.op = "clearError", !.via = "provider",
                              !.pre = currentUser, !.cur = currentUser]
    /\ UNCHANGED <<client, ctorError, storageKind, currentUser, eventListeners,
                   calls, callsLeft, regLeft, requests, mounted, providerUser,
                   isLoading, wrapper, initial>>
    /\ UNCHANGED storageVars

ProviderNext ==
    \/ Construct
    \/ On
    \/ Off
    \/ Mount
    \/ Unmount
    \/ WrappedSignUp
    \/ WrappedSignIn
    \/ WrappedSignOut
    \/ RefreshUser
    \/ ClearError
    \/ FetchRejects
    \/ ResponseArrives
    \/ ErrorBodyRead
    \/ OkBodyRead
    \/ InitializeContinues

ProviderSpec == ProviderInit /\ [][ProviderNext]_vars

\* ------------------------------------------------- storage manager claims

ManagerOps == {"getItem", "setItem", "removeItem", "clear"}

KeysOf(entries) == {p.key : p \in entries}

\* C12: getItem(k) returns the value of the latest setItem(k, v) that the
\* backend accepted, when nothing wrote to k since and the read did not fail;
\* for every value, the empty string included, and on every backend.
C12_SetThenGetReturnsValue ==
    (/\ storageLast.op = "getItem"
     /\ ~storageLast.raised
     /\ Lookup(written, storageLast.key) # <<>>) =>
        storageLast.result = Lookup(written, storageLast.key)

C13_Step ==
    storageKind # "none" =>
        /\ storageLast'.op \in ManagerOps
        /\ \A bk \in KeysOf(backend) \cup KeysOf(backend') :
              \/ Lookup(backend', bk) = Lookup(backend, bk)
              \/ /\ Len(bk) >= 9
                 /\ SubSeq(bk, 1, 9) = StoragePrefix
                 /\ storageLast'.op \in {"setItem", "removeItem"} =>
                       SubSeq(bk, 10, Len(bk)) = storageLast'.key
                 /\ storageLast'.op = "clear" => Lookup(backend', bk) = <<>>
                 /\ storageLast'.op # "getItem"
        /\ storageLast'.op = "getItem" =>
              storageLast'.result
                  \in {<<>>, Lookup(backend, StoragePrefix \o storageLast'.key)}

\* C13: an operation on the manager leaves every backend key that does not
\* start with the prefix as it was: getItem changes nothing and reads
\* prefix+key, setItem and removeItem change prefix+key only, and clear()
\* only removes keys that start with the prefix.
C13_UnrelatedKeysUntouched == [][C13_Step]_vars

\* setItem("k", "v") was accepted by a backend that holds another script's
\* key "k".
C13_Witness ==
    /\ storageLast.op = "setItem"
    /\ storageLast.key = <<"k">>
    /\ Lookup(backend, <<"k">>) = <<"o">>
    /\ Lookup(backend, GetKey(<<"k">>)) = <<"v">>

\* C14: after clear() on a backend that exposes length and key(), and that
\* did not throw, no key that starts with the prefix is left.
C14_EnumerableBackendIsSwept ==
    (/\ storageLast.op = "clear"
     /\ backendEnumerates
     /\ ~storageLast.raised) =>
        PrefixedKeys(backend) = {}

\* C15: no operation on the manager throws, and getItem returns null when
\* the backend throws.
C15_NoStorageFailurePropagates ==
    storageLast.op \in ManagerOps =>
        /\ ~storageLast.threw
        /\ (storageLast.op = "getItem" /\ storageLast.raised) =>
              storageLast.result = <<>>

\* --------------------------------------------------------- provider claims

\* The latest step settled the client call of a wrapped action, which then
\* ran to its end.
WrapperSettled == last.via = "wrapper" /\ last.settled \in {"return", "throw"}

\* This step settles the client call of a wrapped action.
WrapperSettles == wrapper.phase = "awaiting" /\ wrapper'.phase = "done"

\* C16: a wrapped action whose client call raised has stored that error in
\* the state `error` and has raised the same error to its own caller; for
\* signUp, signIn, signOut and refreshUser alike.
C16_WrappersStoreAndReraise ==
    (WrapperSettled /\ last.settled = "throw") =>
        /\ providerError = last.err
        /\ wrapper.raised = last.err

C17_OriginalStep ==
    (WrapperSettles /\ last'.settled = "throw") =>
        /\ providerUser' = providerUser
        /\ providerError' = last'.err

\* C17 as stated: a wrapped action that fails leaves the state `user` as it
\* was and stores the error, for all four wrapped actions.
C17_ErrorLeavesUserUnchanged == [][C17_OriginalStep]_vars

C17_AmendedStep ==
    (WrapperSettles /\ last'.settled = "throw") =>
        /\ providerError' = last'.err
        /\ last'.op \in {"signUp", "signIn"} => providerUser' = providerUser
        /\ last'.op = "signOut" => providerUser' \in {providerUser, Null}
        /\ last'.op = "getUser" => providerUser' = Null

\* C17 amended: a wrapped signUp or signIn that fails leaves the state `user`
\* as it was and stores the error; a wrapped signOut that fails stores the
\* error and leaves `user` as it was or null; a refreshUser that fails stores
\* the error and sets `user` to null.
C17_SignInErrorLeavesUserUnchanged == [][C17_AmendedStep]_vars

\* A wrapped signIn failed while the provider held a user, and the user is
\* still held.
C17_Witness ==
    /\ WrapperSettled
    /\ last.op = "signIn"
    /\ last.settled = "throw"
    /\ providerUser \in Users
    /\ providerError = last.err

C18_State ==
    (/\ mounted = "yes"
     /\ wrapper.phase # "awaiting"
     /\ initial.phase # "awaiting") => ~isLoading

C18_Step ==
    /\ (wrapper'.phase = "awaiting" /\ wrapper' # wrapper) => isLoading'
    /\ WrapperSettles => ~isLoading'

\* C18: a wrapped action sets isLoading when it is called and clears it when
\* its client call settles, by return or by throw; while the effect is set
\* up and neither a wrapped action nor the initial check is in flight,
\* isLoading is false.
C18_LoadingIsCleared == [](C18_State) /\ [][C18_Step]_vars

\* A wrapped signOut failed and isLoading has been cleared.
C18_Witness ==
    /\ WrapperSettled
    /\ last.op = "signOut"
    /\ last.settled = "throw"
    /\ ~isLoading

C19_Step ==
    (initial.phase = "awaiting" /\ initial'.phase = "done"
     /\ mounted = "yes") =>
        /\ last'.via = "mount"
        /\ last'.op = "getUser"
        /\ providerUser' = IF last'.settled = "return" THEN last'.value
                           ELSE Null
        /\ ~isLoading'
        /\ last'.settled = "throw" =>
              (providerError' = providerError /\ initial'.raised = NoError)

\* C19: the effect calls getUser(); when that call settles while the effect
\* is set up, `user` becomes the returned value, or null when the call
\* raised, isLoading becomes false, and a failure neither touches `error`
\* nor leaves initialize().
C19_InitialCheckIsSilent ==
    [](mounted = "yes" => initial.op = "getUser") /\ [][C19_Step]_vars

\* The initial check failed while the effect was set up.
C19_Witness ==
    /\ last.via = "mount"
    /\ last.settled = "throw"
    /\ last.err.kind = "NetworkError"
    /\ mounted = "yes"
    /\ providerUser = Null
    /\ providerError = NoError

\* The provider's handler for `event` is registered for it.
Subscribed(event) ==
    IsRegistered(eventListeners, event, ProviderHandlers[event])

C20_State ==
    /\ mounted = "yes" => \A e \in Events : Subscribed(e)
    /\ mounted = "gone" =>
          \A e \in DOMAIN eventListeners, f \in Events :
              ~InSeq(ProviderHandlers[f], eventListeners[e])

C20_Step ==
    /\ mounted' # mounted =>
          \A e \in Events, h \in Handlers :
              IsRegistered(eventListeners', e, h)
                  <=> IsRegistered(eventListeners, e, h)
    /\ (mounted = "gone" /\ ~WrapperSettles) =>
          /\ providerUser' = providerUser
          /\ providerError' = providerError
          /\ isLoading' = isLoading

\* C20: while the effect is set up each of the four events has the
\* provider's handler registered; after the cleanup none of them is
\* registered for any event; setting up and cleaning up leave the handlers
\* of other code registered as they were; and after the cleanup neither the
\* client's events nor the initial check settling write the provider's state.
C20_SubscriptionsFollowTheEffect == [](C20_State) /\ [][C20_Step]_vars

\* The initial check returned a user after the cleanup, while a handler of
\* other code was registered, and the provider's state was not written.
C20_Witness ==
    /\ mounted = "gone"
    /\ last.via = "mount"
    /\ last.settled = "return"
    /\ last.value \in Users
    /\ providerUser # last.value
    /\ isLoading
    /\ \E e \in Events, h \in Handlers : IsRegistered(eventListeners, e, h)

\* ------------------------------------------------------ overlapping calls

\* The client alone, with operations called while others are in flight
\* (spec section 5): the constructor's restore and up to MaxOverlap - 1
\* further operations, or MaxOverlap operations of the application.
RaceInit ==
    /\ ClientInit(MaxRaceCalls, 0)
    /\ StorageIdle(0)
    /\ ProviderIdle

\* client.signUp(data) while other operations are in flight
RaceSignUp ==
    /\ client = "live"
    /\ \E serializable \in BOOLEAN :
          StartUnder(MaxOverlap, "signUp", serializable)

\* client.signIn(data) while other operations are in flight
RaceSignIn ==
    /\ client = "live"
    /\ \E serializable \in BOOLEAN :
          StartUnder(MaxOverlap, "signIn", serializable)

\* client.signOut() while other operations are in flight
RaceSignOut ==
    /\ client = "live"
    /\ StartUnder(MaxOverlap, "signOut", TRUE)

\* client.getUser() while other operations are in flight
RaceGetUser ==
    /\ client = "live"
    /\ StartUnder(MaxOverlap, "getUser", TRUE)

RaceNext ==
    \/ Construct
    \/ RaceSignUp
    \/ RaceSignIn
    \/ RaceSignOut
    \/ RaceGetUser
    \/ FetchRejects
    \/ ResponseArrives
    \/ ErrorBodyRead
    \/ OkBodyRead
    \/ InitializeContinues

RaceSpec == RaceInit /\ [][RaceNext]_vars

\* A provider around the client, with wrapped actions called while the
\* initial check is in flight and with operations called on the client
\* itself.
MixedInit ==
    /\ ClientInit(MaxMixedCalls, 0)
    /\ StorageIdle(0)
    /\ ProviderIdle

\* useAuth().signUp(data) while other operations are in flight
MixedWrappedSignUp == WrappedUnder(MaxOverlap, "signUp") /\ client = "live"

\* useAuth().signIn(data) while other operations are in flight
MixedWrappedSignIn == WrappedUnder(MaxOverlap, "signIn") /\ client = "live"

\* useAuth().signOut() while other operations are in flight
MixedWrappedSignOut == WrappedUnder(MaxOverlap, "signOut") /\ client = "live"

\* useAuth().refreshUser() while other operations are in flight
MixedRefreshUser == WrappedUnder(MaxOverlap, "getUser") /\ client = "live"

\* client.refreshSession() while other operations are in flight
RaceRefreshSession ==
    /\ client = "live"
    /\ RefreshSessionUnder(MaxOverlap)

MixedNext ==
    \/ Construct
    \/ Mount
    \/ MixedWrappedSignUp
    \/ MixedWrappedSignIn
    \/ MixedWrappedSignOut
    \/ MixedRefreshUser
    \/ ClearError
    \/ RaceSignUp
    \/ RaceSignIn
    \/ RaceSignOut
    \/ RaceGetUser
    \/ RaceRefreshSession
    \/ FetchRejects
    \/ ResponseArrives
    \/ ErrorBodyRead
    \/ OkBodyRead
    \/ InitializeContinues

MixedSpec == MixedInit /\ [][MixedNext]_vars

\* ------------------------------------------------- client claims, continued

\* refreshSession() has settled in the latest step.
RefreshSettled ==
    last.op = "refreshSession" /\ last.settled \in {"return", "throw"}

\* C21: refreshSession() calls getUser(). When getUser() resolves to null
\* (an HTTP 401 among the cases) it raises an AuthenticationError with the
\* message "Not authenticated" and status 401 and returns nothing; when
\* getUser() resolves to a user it returns a Session; when getUser() raises,
\* refreshSession() raises that same error.
C21_RefreshSessionFollowsGetUser ==
    RefreshSettled =>
        /\ last.awaited # <<>>
        /\ last.status = <<401>> =>
              /\ last.awaited[1].settled = "return"
              /\ last.awaited[1].value = Null
        /\ (last.awaited[1].settled = "return"
            /\ last.awaited[1].value = Null) =>
              /\ last.settled = "throw"
              /\ last.value = Undefined
              /\ last.err.kind = "AuthenticationError"
              /\ last.err.message = <<"Not authenticated">>
              /\ last.err.status = <<401>>
        /\ (last.awaited[1].settled = "return"
            /\ last.awaited[1].value \in Users) =>
              /\ last.settled = "return"
              /\ last.value = SessionValue
              /\ last.err = NoError
              /\ last.cur = last.awaited[1].value
        /\ last.awaited[1].settled = "throw" =>
              /\ last.settled = "throw"
              /\ last.err = last.awaited[1].err
              /\ IsAuthError(last.err)

\* refreshSession() raised "Not authenticated" after an HTTP 401.
C21_Witness ==
    /\ RefreshSettled
    /\ last.status = <<401>>
    /\ last.settled = "throw"
    /\ last.err.message = <<"Not authenticated">>

\* C22: a successful signIn or signUp emits signIn and then userChanged,
\* both with the decoded user; signOut emits signOut and then
\* userChanged(null), whether the request succeeded or failed; each of the
\* two events is emitted exactly once per call.
C22_EventsInOrderOncePerCall ==
    /\ (last.op \in {"signUp", "signIn"} /\ last.settled = "return") =>
          /\ Len(EmitsOf(last.log)) = 2
          /\ EmitsOf(last.log)[1].event = "signIn"
          /\ EmitsOf(last.log)[2].event = "userChanged"
          /\ EmitsOf(last.log)[1].payload = last.value
          /\ EmitsOf(last.log)[2].payload = last.value
    /\ (last.op = "signOut" /\ OperationSettled) =>
          /\ Len(EmitsOf(last.log)) = 2
          /\ EmitsOf(last.log)[1].event = "signOut"
          /\ EmitsOf(last.log)[2].event = "userChanged"
          /\ EmitsOf(last.log)[2].payload = Null

\* A promise of the client settles in this step: an operation in flight
\* leaves the bag, or initialize() is left waiting to resume.
SettleStep ==
    /\ callsLeft' = callsLeft
    /\ \/ BagCardinality(calls') < BagCardinality(calls)
       \/ \E c \in BagToSet(calls') : c.pc = "cont" /\ ~BagIn(c, calls)

\* The response processed in a step recorded as l makes the operation write
\* the cached user: any signOut, a getUser answered 401, a success body.
WritesCache(l) ==
    /\ l.op \in Ops
    /\ l.op = "signOut" \/ l.settled = "return"

\* The value that response stands for.
ResponseValue(l) ==
    IF l.op = "signOut" \/ l.okbody = <<>> THEN Null
    ELSE DecodeUser(l.okbody[1]).user

\* A step that processes a response writes that response's value, and no
\* other step writes the cached user.
C23_Step ==
    IF SettleStep /\ WritesCache(last')
    THEN currentUser' = ResponseValue(last')
    ELSE currentUser' = currentUser

\* C23: however signIn, signUp, signOut, getUser and the constructor's
\* restore overlap, the cached user is always the value of the response
\* processed last that writes it (the decoded user of a success body, null
\* for signOut and for getUser's 401), so once every call has settled no
\* earlier response's value has survived a later one.
C23_LastResponseWins == [][C23_Step]_vars

\* The getUser() of the constructor's restore has settled in the latest step.
RestoreSettled ==
    /\ last.via = "init"
    /\ last.op = "getUser"
    /\ last.settled \in {"return", "throw"}

\* initialize() is waiting to resume with the user getUser() gave it.
RestoreResumes == \E c \in BagToSet(calls) : c.pc = "cont"

\* C24: the constructor's restore is best-effort. When its getUser() fails
\* or finds no session, the constructor's caller sees no error, no event is
\* emitted, initialize() is over and the client is unauthenticated with a
\* null cached user; only when getUser() returns a user does initialize()
\* go on to make the client authenticated as that user and emit signIn and
\* then userChanged with it.
C24_RestoreIsBestEffort ==
    /\ RestoreSettled =>
          /\ client = "live"
          /\ ctorError = NoError
          /\ last.log = <<>>
          /\ RestoreResumes <=>
                (last.settled = "return" /\ last.value \in Users)
          /\ ~RestoreResumes =>
                /\ GetCurrentUser = Null
                /\ ~IsAuthenticated
    /\ last.op = "initialize" =>
          /\ last.settled = "return"
          /\ GetCurrentUser \in Users
          /\ IsAuthenticated
          /\ Len(EmitsOf(last.log)) = 2
          /\ EmitsOf(last.log)[1].event = "signIn"
          /\ EmitsOf(last.log)[2].event = "userChanged"
          /\ EmitsOf(last.log)[1].payload = GetCurrentUser
          /\ EmitsOf(last.log)[2].payload = GetCurrentUser

\* An operation other than signOut raised to its caller in the latest step.
RaisedToCaller(ops) ==
    /\ last.op \in ops
    /\ last.via \in {"app", "refresh"}
    /\ last.settled = "throw"

\* C26 as stated: a signIn, signUp or getUser call that raises leaves the
\* cached user as it was and emits no event, and among the client's
\* operations only signOut changes state on a failure path.
C26_OnlySignOutChangesStateOnFailure ==
    RaisedToCaller({"signUp", "signIn", "getUser", "refreshSession"}) =>
        /\ GetCurrentUser = last.pre
        /\ last.log = <<>>

\* C26 amended: a signIn, signUp or getUser call that raises leaves the
\* cached user as it was and emits no event. refreshSession emits no event
\* either; when it raises because its getUser() raised the cached user is
\* as it was, and when it raises because getUser() resolved without a user
\* the cached user is what getUser() resolved with (null after a 401).
\* Among the client's operations only signOut and refreshSession change
\* state on a failure path.
C26_FailedCallLeavesCache ==
    /\ RaisedToCaller({"signUp", "signIn", "getUser"}) =>
          /\ GetCurrentUser = last.pre
          /\ last.cur = last.pre
          /\ last.log = <<>>
          /\ IsAuthError(last.err)
    /\ RaisedToCaller({"refreshSession"}) =>
          /\ last.log = <<>>
          /\ last.awaited[1].settled = "throw" => GetCurrentUser = last.pre
          /\ last.awaited[1].settled = "return" =>
                /\ GetCurrentUser = last.awaited[1].value
                /\ GetCurrentUser \notin Users
          /\ last.status = <<401>> => GetCurrentUser = Null

\* getUser() raised while a user was cached, and the user is still cached.
C26_Witness ==
    /\ RaisedToCaller({"getUser"})
    /\ last.pre \in Users
    /\ GetCurrentUser = last.pre

\* ------------------------------------------- provider claims, continued

\* C25: while the effect is set up, isLoading is true in every state in
\* which the initial check or a wrapped action is in flight, also when they
\* overlap: the completion of one does not clear it while the other is
\* pending.
C25_LoadingWhileAnythingPending ==
    (/\ mounted = "yes"
     /\ initial.phase = "awaiting" \/ wrapper.phase = "awaiting") =>
        isLoading

\* The effect is set up, the initial check has resolved, and neither a
\* client operation nor a wrapped action is in flight.
Quiescent ==
    /\ mounted = "yes"
    /\ initial.phase = "done"
    /\ wrapper.phase # "awaiting"
    /\ calls = EmptyBag

\* C27: in every quiescent state of a mounted provider the state `user` is
\* the client's getCurrentUser(), and so the context's isAuthenticated is
\* the client's isAuthenticated(), whatever operations ran through the
\* wrapped actions or on the client itself.
C27_ProviderMirrorsClient ==
    Quiescent =>
        /\ providerUser = GetCurrentUser
        /\ (providerUser # Null) <=> IsAuthenticated

\* The handlers of the provider that write the state `error` when the
\* client emits signIn or signOut.
ErrorClearingHandlers == {"handleSignIn", "handleSignOut"}

C28_State ==
    \A i \in 1..Len(last.log) :
        /\ last.log[i].event # "error"
        /\ last.log[i].handler # ProviderHandlers.error

C28_Step ==
    providerError' # providerError =>
        \/ wrapper' # wrapper
        \/ last'.op = "clearError"
        \/ /\ SettleStep
           /\ \E i \in 1..Len(last'.log) :
                 last'.log[i].handler \in ErrorClearingHandlers

====
